---- MODULE Spec2Model ----
(***************************************************************************)
(* A model of awgh/sshell: the command registry with prefix lookup         *)
(* (sshell.go, commands/commands.go) and the per-channel request           *)
(* multiplexer with its terminal sessions (sshell.go), tab completion, and *)
(* batch execution of an argument string (package commands).               *)
(*                                                                         *)
(* Strings are sequences of one-character strings, so that lower-casing,   *)
(* prefix tests and whitespace splitting are computed, not assumed.        *)
(* Payloads are sequences of bytes (0..255).                               *)
(***************************************************************************)
EXTENDS Integers, Sequences, FiniteSets, TLC

VARIABLES
    Commands,   \* SSHell.Commands: map from key to command{run, complete}
    res,        \* the return value of the last lookupCommand call
    call,       \* the last autoCompleteCallback or Exec call and what it returned
    access,     \* per task: the access to s.Commands it is in the middle of
    chType,     \* newChannel.ChannelType()
    chState,    \* what handleChannel did with the new channel
    loopPc,     \* position of handleChannel's request loop
    cur,        \* the request the loop is handling (req)
    nrecv,      \* number of requests received so far on the channel
    c,          \* the buffered channel c of pty-req / window-change requests
    sessions,   \* the serveTerminal goroutines started for the channel
    sftp,       \* the serveSFTP goroutines started for the channel
    connClosed, \* connection.Close() has been called
    replies,    \* the requests answered with req.Reply(true, nil)
    applied,    \* term.SetSize calls, in the order they were made
    nlines,     \* input lines read so far by the sessions of the channel
    crashed     \* the process is gone (a goroutine panicked, or log.Fatal)

vars == <<Commands, res, call, access, chType, chState, loopPc, cur, nrecv, c, sessions,
          sftp, connClosed, replies, applied, nlines, crashed>>

chanVars == <<chType, chState, loopPc, cur, nrecv, c, sessions, sftp,
              connClosed, replies, applied, nlines, crashed>>

-----------------------------------------------------------------------------
(* Strings                                                                 *)

Nil == "nil"

\* The upper-case letters of the model's alphabet and their lower case.
UpperToLower ==
    ("E" :> "e") @@ ("X" :> "x") @@ ("T" :> "t") @@ ("A" :> "a") @@ ("B" :> "b")

\* strings.ToLower
ToLower(s) ==
    [i \in DOMAIN s |-> IF s[i] \in DOMAIN UpperToLower THEN UpperToLower[s[i]] ELSE s[i]]

\* strings.HasPrefix
HasPrefix(s, p) == Len(p) <= Len(s) /\ SubSeq(s, 1, Len(p)) = p

sTest == <<"t", "e", "s", "t">>
sExit == <<"e", "x", "i", "t">>

-----------------------------------------------------------------------------
(* The command registry                                                    *)

\* type command struct { run; complete }; its zero value has both nil.
ZeroCommand == [run |-> Nil, complete |-> Nil]

\* NewSSHell: the registry a new server starts with.
NewSSHell == (sTest :> [run |-> "cmdTest", complete |-> Nil])
          @@ (sExit :> [run |-> "cmdExit", complete |-> Nil])

\* The key RegisterCommand stores an entry under: the name as given.
RegisterKey(name) == name

\* RegisterCommand: s.Commands[name] = command{run: run, complete: complete}
RegisterCommandIn(cmds, name, run, complete) ==
    (RegisterKey(name) :> [run |-> run, complete |-> complete]) @@ cmds

\* The orders in which a range over a map with key set S may visit it.
RECURSIVE ScanOrders(_)
ScanOrders(S) ==
    IF S = {} THEN {<<>>}
    ELSE UNION {{<<x>> \o p : p \in ScanOrders(S \ {x})} : x \in S}

\* lookupCommand's loop over s.Commands, visiting the keys in `order`, from
\* position i with the named results name and c as they stand.
RECURSIVE ScanLoop(_, _, _, _, _, _)
ScanLoop(cmds, prefix, order, i, name, cc) ==
    IF i > Len(order)
    THEN [name |-> name, c |-> cc, ok |-> cc.run # Nil]
    ELSE LET full == order[i] IN
         IF HasPrefix(full, prefix)
         THEN IF cc.run # Nil
              THEN [name |-> <<>>, c |-> ZeroCommand, ok |-> FALSE]
              ELSE ScanLoop(cmds, prefix, order, i + 1, full, cmds[full])
         ELSE ScanLoop(cmds, prefix, order, i + 1, name, cc)

\* lookupCommand / LookupCommand, with the map's iteration order made explicit.
lookupCommand(cmds, prefix, order) ==
    LET p == ToLower(prefix) IN
    IF p \in DOMAIN cmds
    THEN [name |-> p, c |-> cmds[p], ok |-> TRUE]
    ELSE ScanLoop(cmds, p, order, 1, <<>>, ZeroCommand)

\* The value res holds while no lookup has returned.
NoResult ==
    [called |-> FALSE, prefix |-> <<>>, name |-> <<>>, c |-> ZeroCommand, ok |-> FALSE]

\* The value call holds while no autoCompleteCallback or Exec call has returned.
NoCall == [kind |-> "none"]

\* The tasks that call into the registry: the program's own goroutine,
\* which registers commands, and the serveTerminal goroutines.
Tasks == {1, 2}

\* A task that is not inside RegisterCommand or lookupCommand.
Idle == [op |-> "idle"]

NoAccess == [t \in Tasks |-> Idle]

\* The names callers register commands under, and the capabilities they give.
RegNames == {<<"e", "x">>, sExit, <<"E", "x">>}
RegRuns == {Nil, "userRun"}
RegCompletes == {Nil, "userComplete"}

\* The prefixes callers look up: every prefix of a name in use, an
\* upper-case spelling and a prefix of no name.
LookupInputs ==
    UNION {{SubSeq(n, 1, k) : k \in 0..Len(n)} : n \in RegNames \cup {sTest, sExit}}
    \cup {<<"E">>, <<"T", "E">>, <<"E", "X", "I", "T">>, <<"q">>}

\* RegisterCommand(name, run, complete)
RegisterCommand(name, run, complete) ==
    /\ Commands' = RegisterCommandIn(Commands, name, run, complete)
    /\ res' = NoResult
    /\ call' = NoCall
    /\ UNCHANGED <<access, chanVars>>

\* A call of lookupCommand(prefix) on the registry as it stands.
Lookup(prefix, order) ==
    /\ res' = [called |-> TRUE, prefix |-> prefix] @@ lookupCommand(Commands, prefix, order)
    /\ call' = NoCall
    /\ UNCHANGED <<Commands, access, chanVars>>

-----------------------------------------------------------------------------
(* Completion: autoCompleteCallback                                        *)

\* The characters the regular expression class \w matches.
WordChars ==
    { "a", "b", "c", "d", "e", "f", "g", "h", "i", "j", "k", "l", "m",
      "n", "o", "p", "q", "r", "s", "t", "u", "v", "w", "x", "y", "z",
      "A", "B", "C", "D", "E", "F", "G", "H", "I", "J", "K", "L", "M",
      "N", "O", "P", "Q", "R", "S", "T", "U", "V", "W", "X", "Y", "Z",
      "0", "1", "2", "3", "4", "5", "6", "7", "8", "9", "_" }

\* strings.IndexByte(s, ch), 1-based; 0 when ch is not in s.
IndexByte(s, ch) ==
    IF \E i \in DOMAIN s : s[i] = ch
    THEN CHOOSE i \in DOMAIN s : s[i] = ch /\ \A j \in 1..(i - 1) : s[j] # ch
    ELSE 0

\* The position of the last character of s outside \w; 0 when all are in it.
LastNonWord(s) ==
    IF \E i \in DOMAIN s : s[i] \notin WordChars
    THEN CHOOSE i \in DOMAIN s :
            s[i] \notin WordChars /\ \A j \in (i + 1)..Len(s) : s[j] \in WordChars
    ELSE 0

\* lastWord.FindStringSubmatch(line) for `.+\W(\w+)$`: the line matches when
\* its last character outside \w has a character before it and one after
\* it; m[1] is what follows that character.
LastWordMatch(line) ==
    LET i == LastNonWord(line) IN
    IF i >= 2 /\ i < Len(line)
    THEN [nil |-> FALSE, soFar |-> SubSeq(line, i + 1, Len(line))]
    ELSE [nil |-> TRUE, soFar |-> <<>>]

\* A comparison of two strings that tells upper case from lower case.
EqualExact(a, b) == a = b

\* strings.EqualFold on the model's alphabet.
EqualFold(a, b) == ToLower(a) = ToLower(b)

\* What a complete capability returns, by its identity.
Candidates(complete) ==
    IF complete = "userComplete"
    THEN << <<"a", "l", "p", "h", "a">>,
            <<"a", "l", "p", "h", "a", "b", "e", "t">>,
            <<"b", "e", "t", "a">> >>
    ELSE <<>>

\* The candidate filter of lines 229-234.
IsMatch(cand, soFar) ==
    ~(Len(soFar) > Len(cand) \/ ~EqualFold(SubSeq(cand, 1, Len(soFar)), soFar))

\* autoCompleteCallback(line, pos, key). The named result ok is the variable
\* the lookup at line 216 assigns, so the bare returns at lines 218 and 236
\* return ok as the lookup left it, with newLine "" and newPos 0.
autoCompleteCallback(cmds, line, pos, key, order) ==
    IF key # "\t" \/ pos # Len(line)
    THEN [newLine |-> <<>>, newPos |-> 0, ok |-> FALSE]
    ELSE IF IndexByte(line, " ") = 0
    THEN LET l == lookupCommand(cmds, line, order) IN
         IF ~l.ok
         THEN [newLine |-> <<>>, newPos |-> 0, ok |-> FALSE]
         ELSE [newLine |-> l.name, newPos |-> Len(l.name), ok |-> TRUE]
    ELSE LET l == lookupCommand(cmds, SubSeq(line, 1, IndexByte(line, " ") - 1), order) IN
         IF ~l.ok \/ l.c.complete = Nil
         THEN [newLine |-> <<>>, newPos |-> 0, ok |-> l.ok]
         ELSE IF line[Len(line)] = " "
         THEN [newLine |-> line, newPos |-> pos, ok |-> TRUE]
         ELSE LET m == LastWordMatch(line) IN
              IF m.nil
              THEN [newLine |-> line, newPos |-> Len(line), ok |-> TRUE]
              ELSE LET match == SelectSeq(Candidates(l.c.complete),
                                          LAMBDA cand : IsMatch(cand, m.soFar))
                   IN IF Len(match) = 0
                      THEN [newLine |-> <<>>, newPos |-> 0, ok |-> l.ok]
                      ELSE IF Len(match) > 1
                      THEN [newLine |-> line, newPos |-> pos, ok |-> TRUE]
                      ELSE LET nl == SubSeq(line, 1, Len(line) - Len(m.soFar)) \o match[1]
                           IN [newLine |-> nl, newPos |-> Len(nl), ok |-> TRUE]

\* The lines on which the terminal calls the callback.
AutoLines ==
    { <<"t", "e">>, <<"q">>,
      <<"t", "e", "s", "t", " ", "x">>, <<"q", " ", "x">>,
      <<"e", "x", " ">>, <<"e", "x", " ", "a", "l">>, <<"e", "x", " ", "B">>,
      <<"e", "x", " ", "z">>, <<"e", "x", " ", "a", "-">>,
      <<"e", "x", " ", "-", "b", "e", "t", "a">> }

\* The calls the terminal makes: the tab key at the end of each line, the
\* tab key inside a line, and another key at the end of a line.
AutoInputs ==
    {[line |-> l, pos |-> Len(l), key |-> "\t"] : l \in AutoLines}
    \cup {[line |-> <<"t", "e">>, pos |-> 0, key |-> "\t"],
          [line |-> <<"t", "e">>, pos |-> 2, key |-> "a"]}

\* The terminal calls autoCompleteCallback with a line, a cursor position
\* and the key pressed.
AutoComplete(line, pos, key, order) ==
    /\ call' = [kind |-> "complete", line |-> line, pos |-> pos, key |-> key]
               @@ autoCompleteCallback(Commands, line, pos, key, order)
    /\ res' = NoResult
    /\ UNCHANGED <<Commands, access, chanVars>>

-----------------------------------------------------------------------------
(* Bytes, payloads and requests                                            *)

\* binary.BigEndian.Uint32 of the four bytes of b from position i (1-based).
BigEndianUint32(b, i) ==
    ((b[i] * 256 + b[i + 1]) * 256 + b[i + 2]) * 256 + b[i + 3]

\* parseDims: panics when b holds fewer than 8 bytes.
parseDims(b) ==
    IF Len(b) < 8
    THEN [panic |-> TRUE, w |-> 0, h |-> 0]
    ELSE [panic |-> FALSE, w |-> BigEndianUint32(b, 1), h |-> BigEndianUint32(b, 5)]

\* b[n:] of Go: the bytes of b after the first n.
SliceFrom(b, n) == SubSeq(b, n + 1, Len(b))

sftpName == <<115, 102, 116, 112>>

\* The requests a client sends on a channel: type and payload.
RequestKinds ==
    { [type |-> "shell", payload |-> <<>>],
      [type |-> "shell", payload |-> <<1>>],
      [type |-> "subsystem", payload |-> <<0, 0, 0, 4>> \o sftpName],
      [type |-> "subsystem", payload |-> <<0, 0, 0, 3, 102, 111, 111>>],
      [type |-> "subsystem", payload |-> <<0, 0, 0>>],
      [type |-> "pty-req", payload |-> <<0, 0, 0, 1, 120, 0, 0, 0, 80, 0, 0, 0, 24, 0, 0, 0, 0>>],
      [type |-> "pty-req", payload |-> <<0, 0>>],
      [type |-> "window-change", payload |-> <<0, 0, 0, 90, 0, 0, 0, 30, 0, 0, 0, 0>>],
      [type |-> "window-change", payload |-> <<0, 0, 0, 9>>],
      [type |-> "env", payload |-> <<0, 0, 0, 1, 65>>] }

NoReq == [id |-> 0, type |-> "", payload |-> <<>>]

\* make(chan *ssh.Request, 2)
ChanCap == 2

\* The channel types a client opens.
ChannelTypes == {"session", "direct-tcpip", "x11"}

\* A handleChannel that accepts a channel of any type.
IsSessionTypeAny(t) == t = t

\* handleChannel's test of the channel type.
IsSessionType(t) == t = "session"

-----------------------------------------------------------------------------
(* Input lines and commands                                                *)

IsSpace(ch) == ch \in {" ", "\t"}

\* strings.Fields: the maximal runs of non-space characters of s.
RECURSIVE FieldsFrom(_, _, _, _)
FieldsFrom(s, i, word, acc) ==
    IF i > Len(s)
    THEN IF word = <<>> THEN acc ELSE Append(acc, word)
    ELSE IF IsSpace(s[i])
         THEN FieldsFrom(s, i + 1, <<>>, IF word = <<>> THEN acc ELSE Append(acc, word))
         ELSE FieldsFrom(s, i + 1, Append(word, s[i]), acc)

Fields(s) == FieldsFrom(s, 1, <<>>, <<>>)

\* fmt's %+v of a []string: the elements between brackets, space-separated.
RECURSIVE JoinSpace(_)
JoinSpace(args) ==
    IF args = <<>> THEN <<>>
    ELSE IF Len(args) = 1 THEN args[1]
    ELSE args[1] \o <<" ">> \o JoinSpace(Tail(args))

FormatArgs(args) == <<"[">> \o JoinSpace(args) \o <<"]">>

errExitApp == "exiting"

\* WriteTerm: the text written is msg followed by a newline.
WriteTerm(by, msg) == [by |-> by, text |-> msg \o <<"\n">>]

\* What a run capability writes to its sink and returns, by its identity:
\* cmdTest, cmdExit, and a caller's command that writes and fails.
RunCommand(run, args) ==
    CASE run = "cmdTest" ->
            [writes |-> <<WriteTerm("cmd", <<"Test: ">> \o FormatArgs(args))>>, err |-> Nil]
      [] run = "cmdExit" ->
            [writes |-> <<>>, err |-> errExitApp]
      [] OTHER ->
            [writes |-> <<WriteTerm("cmd", <<"failed">>)>>, err |-> "userError"]

\* A session loop that takes no error for the exit signal.
IsExitSignalNever(err) == err # err

\* A session loop that takes every result of run for the exit signal.
IsExitSignalAlways(err) == err = err

\* serveTerminal's test of run's error against the exit signal.
IsExitSignal(err) == err = errExitApp

\* The lines a client types.
Lines ==
    { <<" ">>, sExit, <<"e", "x">>, <<"t", "e", "s", "t", " ", "x">>,
      <<"t", "e">>, <<"q", " ", "x">> }

-----------------------------------------------------------------------------
(* The channel: handleChannel                                              *)

\* A client sends at most MaxEvents messages on the channel, requests and
\* typed lines together.
MaxEvents == 4

\* A serveTerminal goroutine as it starts: the session loop is about to read
\* a line and its drainer holds no request. line is the line handled last,
\* err and out what its command returned and what was written for it.
NewSession(reqId) ==
    [pc |-> "read", line |-> <<>>, err |-> "none", out |-> <<>>, held |-> NoReq,
     req |-> reqId]

\* The state of the channel's variables before handleChannel runs.
ChanInit(t) ==
    /\ chType = t
    /\ chState = [st |-> "new", reason |-> ""]
    /\ loopPc = "none"
    /\ cur = NoReq
    /\ nrecv = 0
    /\ c = <<>>
    /\ sessions = <<>>
    /\ sftp = <<>>
    /\ connClosed = FALSE
    /\ replies = {}
    /\ applied = <<>>
    /\ nlines = 0
    /\ crashed = FALSE

\* handleChannel, lines 96-99: a channel of another type is rejected.
Reject ==
    /\ ~crashed
    /\ chState.st = "new"
    /\ ~IsSessionType(chType)
    /\ chState' = [st |-> "rejected", reason |-> "UnknownChannelType"]
    /\ UNCHANGED <<Commands, res, call, access, chType, loopPc, cur, nrecv, c, sessions, sftp,
                   connClosed, replies, applied, nlines, crashed>>

\* handleChannel, lines 100-106: Accept succeeds and the loop starts with an
\* empty queue c, or Accept fails and handleChannel returns.
Accept ==
    /\ ~crashed
    /\ chState.st = "new"
    /\ IsSessionType(chType)
    /\ \/ /\ chState' = [st |-> "accepted", reason |-> ""]
          /\ loopPc' = "recv"
       \/ /\ chState' = [st |-> "acceptError", reason |-> ""]
          /\ loopPc' = "done"
    /\ UNCHANGED <<Commands, res, call, access, chType, cur, nrecv, c, sessions, sftp,
                   connClosed, replies, applied, nlines, crashed>>

\* for req := range requests: the next request arrives.
LoopRecv ==
    /\ ~crashed
    /\ loopPc = "recv"
    /\ nrecv + nlines < MaxEvents
    /\ \E k \in RequestKinds :
          /\ cur' = [id |-> nrecv + 1, type |-> k.type, payload |-> k.payload]
    /\ nrecv' = nrecv + 1
    /\ loopPc' = "handle"
    /\ UNCHANGED <<Commands, res, call, access, chType, chState, c, sessions, sftp,
                   connClosed, replies, applied, nlines, crashed>>

\* for req := range requests: the request stream is closed, the loop ends.
LoopEnd ==
    /\ ~crashed
    /\ loopPc = "recv"
    /\ loopPc' = "done"
    /\ cur' = NoReq
    /\ UNCHANGED <<Commands, res, call, access, chType, chState, nrecv, c, sessions, sftp,
                   connClosed, replies, applied, nlines, crashed>>

\* case "shell": with an empty payload, reply and start serveTerminal.
HandleShell ==
    /\ ~crashed
    /\ loopPc = "handle"
    /\ cur.type = "shell"
    /\ IF Len(cur.payload) = 0
       THEN /\ replies' = replies \cup {cur.id}
            /\ sessions' = Append(sessions, NewSession(cur.id))
       ELSE UNCHANGED <<replies, sessions>>
    /\ loopPc' = "recv"
    /\ UNCHANGED <<Commands, res, call, access, chType, chState, cur, nrecv, c, sftp,
                   connClosed, applied, nlines, crashed>>

\* case "subsystem": req.Payload[4:] panics on a payload shorter than 4
\* bytes; the name "sftp" is replied to and starts serveSFTP.
HandleSubsystem ==
    /\ ~crashed
    /\ loopPc = "handle"
    /\ cur.type = "subsystem"
    /\ IF Len(cur.payload) < 4
       THEN /\ crashed' = TRUE
            /\ loopPc' = "panicked"
            /\ UNCHANGED <<replies, sftp>>
       ELSE /\ IF SliceFrom(cur.payload, 4) = sftpName
               THEN /\ replies' = replies \cup {cur.id}
                    /\ sftp' = Append(sftp, "serving")
               ELSE UNCHANGED <<replies, sftp>>
            /\ loopPc' = "recv"
            /\ UNCHANGED crashed
    /\ UNCHANGED <<Commands, res, call, access, chType, chState, cur, nrecv, c, sessions,
                   connClosed, applied, nlines>>

\* case "pty-req": c <- req, which blocks while c is full.
HandlePtyReq ==
    /\ ~crashed
    /\ loopPc = "handle"
    /\ cur.type = "pty-req"
    /\ Len(c) < ChanCap
    /\ c' = Append(c, cur)
    /\ loopPc' = "recv"
    /\ UNCHANGED <<Commands, res, call, access, chType, chState, cur, nrecv, sessions, sftp,
                   connClosed, replies, applied, nlines, crashed>>

\* case "window-change": c <- req, which blocks while c is full.
HandleWindowChange ==
    /\ ~crashed
    /\ loopPc = "handle"
    /\ cur.type = "window-change"
    /\ Len(c) < ChanCap
    /\ c' = Append(c, cur)
    /\ loopPc' = "recv"
    /\ UNCHANGED <<Commands, res, call, access, chType, chState, cur, nrecv, sessions, sftp,
                   connClosed, replies, applied, nlines, crashed>>

\* The switch has no default: a request of any other type is passed over.
HandleOther ==
    /\ ~crashed
    /\ loopPc = "handle"
    /\ cur.type \notin {"shell", "subsystem", "pty-req", "window-change"}
    /\ loopPc' = "recv"
    /\ UNCHANGED <<Commands, res, call, access, chType, chState, cur, nrecv, c, sessions, sftp,
                   connClosed, replies, applied, nlines, crashed>>

-----------------------------------------------------------------------------
(* The terminal session: serveTerminal                                     *)

\* The dimensions a "pty-req" payload yields at lines 149-150: the name
\* length is the single byte Payload[3], and termLen+4 is byte arithmetic.
PtyDims(payload) ==
    IF Len(payload) < 4
    THEN [panic |-> TRUE, w |-> 0, h |-> 0]
    ELSE LET termLen == payload[4]
             off == (termLen + 4) % 256
         IN IF off > Len(payload)
            THEN [panic |-> TRUE, w |-> 0, h |-> 0]
            ELSE parseDims(SliceFrom(payload, off))

\* The dimensions a drained request yields.
ReqDims(r) == IF r.type = "pty-req" THEN PtyDims(r.payload) ELSE parseDims(r.payload)

\* for req := range oldrequests: the drainer of session s takes the head of c.
DrainRecv(s) ==
    /\ ~crashed
    /\ sessions[s].held = NoReq
    /\ c # <<>>
    /\ sessions' = [sessions EXCEPT ![s].held = Head(c)]
    /\ c' = Tail(c)
    /\ UNCHANGED <<Commands, res, call, access, chType, chState, loopPc, cur, nrecv, sftp,
                   connClosed, replies, applied, nlines, crashed>>

\* The drainer's switch, lines 147-156: parse the dimensions, SetSize, and
\* for a "pty-req" reply; a payload too short to parse panics.
DrainApply(s) ==
    /\ ~crashed
    /\ sessions[s].held # NoReq
    /\ LET r == sessions[s].held
           d == ReqDims(r)
       IN IF d.panic
          THEN /\ crashed' = TRUE
               /\ UNCHANGED <<sessions, applied, replies>>
          ELSE /\ sessions' = [sessions EXCEPT ![s].held = NoReq]
               /\ applied' = Append(applied, [id |-> r.id, sess |-> s, w |-> d.w, h |-> d.h])
               /\ replies' = IF r.type = "pty-req" THEN replies \cup {r.id} ELSE replies
               /\ UNCHANGED crashed
    /\ UNCHANGED <<Commands, res, call, access, chType, chState, loopPc, cur, nrecv, c, sftp,
                   connClosed, nlines>>

\* close(c) has been called: no statement of handleChannel or serveTerminal
\* closes the queue c, neither when the request loop ends nor when the
\* session does.
QueueClosed == FALSE

\* The drainer's `for req := range oldrequests` has ended: a range over a
\* channel ends only once the channel is closed and empty.
DrainerEnded(s) ==
    /\ QueueClosed
    /\ c = <<>>
    /\ sessions[s].held = NoReq

\* The farewell line the session loop writes on the exit signal.
Farewell == WriteTerm("loop", <<"Exiting.">>)

\* Lines 166-180 for one line read: split it, look the first field up, run
\* the command and act on its result. The outcome: whether the loop goes on
\* ("read") or serveTerminal returns ("done"), run's error, what was written
\* to the terminal, and whether calling a nil run panicked.
DispatchLine(cmds, line, order) ==
    LET f == Fields(line) IN
    IF Len(f) = 0
    THEN [pc |-> "read", err |-> "none", out |-> <<>>, panic |-> FALSE]
    ELSE LET l == lookupCommand(cmds, f[1], order) IN
         IF l.ok
         THEN IF l.c.run = Nil
              THEN [pc |-> "read", err |-> "none", out |-> <<>>, panic |-> TRUE]
              ELSE LET r == RunCommand(l.c.run, Tail(f)) IN
                   IF IsExitSignal(r.err)
                   THEN [pc |-> "done", err |-> r.err,
                         out |-> Append(r.writes, Farewell),
                         panic |-> FALSE]
                   ELSE [pc |-> "read", err |-> r.err, out |-> r.writes, panic |-> FALSE]
         ELSE [pc |-> "read", err |-> "none",
               out |-> <<WriteTerm("loop", <<"Unknown command: ">> \o line)>>,
               panic |-> FALSE]

\* One turn of the session loop: term.ReadLine returns a line and the line
\* is dispatched. When serveTerminal returns, the deferred
\* connection.Close() runs. Input already buffered may still be read after
\* another handler of the channel has called Close.
SessLine(s) ==
    /\ ~crashed
    /\ sessions[s].pc = "read"
    /\ nrecv + nlines < MaxEvents
    /\ \E line \in Lines, order \in ScanOrders(DOMAIN Commands) :
          LET d == DispatchLine(Commands, line, order) IN
          IF d.panic
          THEN /\ crashed' = TRUE
               /\ UNCHANGED <<sessions, connClosed>>
          ELSE /\ sessions' = [sessions EXCEPT ![s].pc = d.pc, ![s].line = line,
                                               ![s].err = d.err, ![s].out = d.out]
               /\ connClosed' = (connClosed \/ d.pc = "done")
               /\ UNCHANGED crashed
    /\ nlines' = nlines + 1
    /\ UNCHANGED <<Commands, res, call, access, chType, chState, loopPc, cur, nrecv, c, sftp,
                   replies, applied>>

\* term.ReadLine returns an error: the loop breaks, serveTerminal returns
\* and the deferred connection.Close() runs.
SessReadError(s) ==
    /\ ~crashed
    /\ sessions[s].pc = "read"
    /\ sessions' = [sessions EXCEPT ![s].pc = "done", ![s].line = <<>>,
                                    ![s].err = "readError", ![s].out = <<>>]
    /\ connClosed' = TRUE
    /\ UNCHANGED <<Commands, res, call, access, chType, chState, loopPc, cur, nrecv, c, sftp,
                   replies, applied, nlines, crashed>>

-----------------------------------------------------------------------------
(* Batch execution: Exec                                                   *)

\* The nil error, and errors.New(text).
NoError == [isNil |-> TRUE, text |-> <<>>]
NewError(text) == [isNil |-> FALSE, text |-> text]

\* shellwords.Parse on strings of blanks, double quotes and other
\* characters: blanks outside quotes separate the words, a quote opens or
\* closes a quoted stretch of the word, and a quote left open is an error.
RECURSIVE ParseFrom(_, _, _, _, _, _)
ParseFrom(s, i, word, started, inQuote, acc) ==
    IF i > Len(s)
    THEN IF inQuote
         THEN [err |-> NewError(<<"invalid command line string">>), f |-> <<>>]
         ELSE [err |-> NoError, f |-> IF started THEN Append(acc, word) ELSE acc]
    ELSE IF s[i] = "\""
         THEN ParseFrom(s, i + 1, word, TRUE, ~inQuote, acc)
    ELSE IF IsSpace(s[i]) /\ ~inQuote
         THEN ParseFrom(s, i + 1, <<>>, FALSE, FALSE,
                        IF started THEN Append(acc, word) ELSE acc)
    ELSE ParseFrom(s, i + 1, Append(word, s[i]), TRUE, inQuote, acc)

Parse(s) == ParseFrom(s, 1, <<>>, FALSE, FALSE, <<>>)

\* string(b.Bytes()): what the writes of a command left in the sink b.
RECURSIVE SinkText(_)
SinkText(writes) ==
    IF writes = <<>> THEN <<>> ELSE Head(writes).text \o SinkText(Tail(writes))

\* Exec(args): the string and the error returned, or the panic of calling a
\* nil Run.
Exec(cmds, args, order) ==
    LET p == Parse(args) IN
    IF ~p.err.isNil
    THEN [out |-> p.err.text, err |-> p.err, panic |-> FALSE]
    ELSE IF Len(p.f) = 0
    THEN [out |-> <<>>, err |-> NoError, panic |-> FALSE]
    ELSE LET l == lookupCommand(cmds, p.f[1], order) IN
         IF l.ok
         THEN IF l.c.run = Nil
              THEN [out |-> <<>>, err |-> NoError, panic |-> TRUE]
              ELSE [out |-> SinkText(RunCommand(l.c.run, Tail(p.f)).writes),
                    err |-> NoError, panic |-> FALSE]
         ELSE LET t == <<"Unknown command: ">> \o p.f[1] \o <<"\n">>
              IN [out |-> t, err |-> NewError(t), panic |-> FALSE]

\* The argument strings a program calls Exec with.
ExecInputs ==
    { <<>>, <<" ">>, sExit, <<"t", "e">>, <<"q", " ", "x">>,
      <<"t", "e", "s", "t", " ", "\"", "a", " ", "b", "\"">>,
      <<"t", "e", "s", "t", " ", "\"", "a">> }

\* A call of Exec(args) on the registry as it stands.
ExecCall(args, order) ==
    /\ ~crashed
    /\ LET r == Exec(Commands, args, order) IN
       /\ call' = [kind |-> "exec", args |-> args] @@ r
       /\ crashed' = r.panic
    /\ UNCHANGED <<Commands, res, access, chType, chState, loopPc, cur, nrecv, c,
                   sessions, sftp, connClosed, replies, applied, nlines>>

-----------------------------------------------------------------------------
(* The file-transfer subsystem: serveSFTP                                  *)

\* What sftp.NewServer and server.Serve can come to.
SftpOutcomes == {"eof", "nil", "serveError", "newServerError"}

\* serveSFTP returns after io.EOF (or no error) and the deferred CloseWrite
\* and Close run; any other error ends in log.Fatal, which exits the process.
SftpFinish(h) ==
    /\ ~crashed
    /\ sftp[h] = "serving"
    /\ \E o \in SftpOutcomes :
          IF o \in {"eof", "nil"}
          THEN /\ sftp' = [sftp EXCEPT ![h] = "done"]
               /\ connClosed' = TRUE
               /\ UNCHANGED crashed
          ELSE /\ crashed' = TRUE
               /\ UNCHANGED <<sftp, connClosed>>
    /\ UNCHANGED <<Commands, res, call, access, chType, chState, loopPc, cur, nrecv, c,
                   sessions, replies, applied, nlines>>

-----------------------------------------------------------------------------
(* Specifications                                                          *)

Init ==
    /\ Commands = NewSSHell
    /\ res = NoResult
    /\ call = NoCall
    /\ access = NoAccess
    /\ \E t \in ChannelTypes : ChanInit(t)

Next ==
    \/ Reject
    \/ Accept
    \/ LoopRecv
    \/ LoopEnd
    \/ HandleShell
    \/ HandleSubsystem
    \/ HandlePtyReq
    \/ HandleWindowChange
    \/ HandleOther
    \/ \E s \in DOMAIN sessions : DrainRecv(s)
    \/ \E s \in DOMAIN sessions : DrainApply(s)
    \/ \E s \in DOMAIN sessions : SessLine(s)
    \/ \E s \in DOMAIN sessions : SessReadError(s)
    \/ \E h \in DOMAIN sftp : SftpFinish(h)

\* One channel of a running server.
Spec == Init /\ [][Next]_vars

RegInit ==
    /\ Commands = NewSSHell
    /\ res = NoResult
    /\ call = NoCall
    /\ access = NoAccess
    /\ ChanInit("session")

RegNext ==
    \/ \E name \in RegNames, run \in RegRuns, complete \in RegCompletes :
          RegisterCommand(name, run, complete)
    \/ \E prefix \in LookupInputs, order \in ScanOrders(DOMAIN Commands) :
          Lookup(prefix, order)
    \/ \E in \in AutoInputs, order \in ScanOrders(DOMAIN Commands) :
          AutoComplete(in.line, in.pos, in.key, order)

\* The registry of one server under register and lookup calls.
RegSpec == RegInit /\ [][RegNext]_vars

\* The registries a program serves terminals with: NewSSHell's, and
\* NewSSHell's after one RegisterCommand call of the program.
ServerRegistries ==
    {NewSSHell} \cup
    {RegisterCommandIn(NewSSHell, n, r, Nil) : n \in {<<"t", "e">>, <<"q">>}, r \in RegRuns}

\* A channel on which the first request, an empty "shell", has been handled:
\* it was replied to and its serveTerminal goroutine has started.
TermInit ==
    /\ Commands \in ServerRegistries
    /\ res = NoResult
    /\ call = NoCall
    /\ access = NoAccess
    /\ chType = "session"
    /\ chState = [st |-> "accepted", reason |-> ""]
    /\ loopPc = "recv"
    /\ cur = [id |-> 1, type |-> "shell", payload |-> <<>>]
    /\ nrecv = 1
    /\ c = <<>>
    /\ sessions = <<NewSession(1)>>
    /\ sftp = <<>>
    /\ connClosed = FALSE
    /\ replies = {1}
    /\ applied = <<>>
    /\ nlines = 0
    /\ crashed = FALSE

TermNext ==
    \/ \E s \in DOMAIN sessions : SessLine(s)
    \/ \E s \in DOMAIN sessions : SessReadError(s)
    \/ \E args \in ExecInputs, order \in ScanOrders(DOMAIN Commands) :
          ExecCall(args, order)

\* One terminal session over the lines its client types, in a program that
\* also executes argument strings in batch.
TermSpec == TermInit /\ [][TermNext]_vars

-----------------------------------------------------------------------------
(* Terminal geometry requests with long terminal names                     *)

\* The four bytes of n in big-endian order.
PutUint32(n) ==
    <<(n \div 16777216) % 256, (n \div 65536) % 256, (n \div 256) % 256, n % 256>>

\* A "pty-req" payload: the length of the terminal name, the name, the
\* width and the height in characters, the two sizes in pixels and an empty
\* list of modes.
PtyPayload(L, w, h) ==
    PutUint32(L) \o [i \in 1..L |-> 120] \o PutUint32(w) \o PutUint32(h)
    \o PutUint32(0) \o PutUint32(0) \o PutUint32(0)

\* A "window-change" payload: the width and the height in characters and
\* the two sizes in pixels.
WindowPayload(w, h) == PutUint32(w) \o PutUint32(h) \o PutUint32(0) \o PutUint32(0)

\* The geometry requests a client sends, with terminal names of 1, 251, 252
\* and 256 bytes.
DimRequests ==
    { [type |-> "pty-req", payload |-> PtyPayload(1, 80, 24)],
      [type |-> "pty-req", payload |-> PtyPayload(251, 80, 24)],
      [type |-> "pty-req", payload |-> PtyPayload(252, 80, 24)],
      [type |-> "pty-req", payload |-> PtyPayload(256, 80, 24)],
      [type |-> "window-change", payload |-> WindowPayload(90, 30)],
      [type |-> "window-change", payload |-> WindowPayload(300, 70000)] }

\* A channel on which an empty "shell" and then two geometry requests have
\* been handled: the session runs and the two requests are queued in c.
DimInit ==
    /\ Commands = NewSSHell
    /\ res = NoResult
    /\ call = NoCall
    /\ access = NoAccess
    /\ chType = "session"
    /\ chState = [st |-> "accepted", reason |-> ""]
    /\ loopPc = "recv"
    /\ \E k1, k2 \in DimRequests :
          /\ c = <<[id |-> 2, type |-> k1.type, payload |-> k1.payload],
                   [id |-> 3, type |-> k2.type, payload |-> k2.payload]>>
          /\ cur = [id |-> 3, type |-> k2.type, payload |-> k2.payload]
    /\ nrecv = 3
    /\ sessions = <<NewSession(1)>>
    /\ sftp = <<>>
    /\ connClosed = FALSE
    /\ replies = {1}
    /\ applied = <<>>
    /\ nlines = 0
    /\ crashed = FALSE

DimNext ==
    \/ \E s \in DOMAIN sessions : DrainRecv(s)
    \/ \E s \in DOMAIN sessions : DrainApply(s)

\* The drainer of one session over two queued geometry requests.
DimSpec == DimInit /\ [][DimNext]_vars

-----------------------------------------------------------------------------
(* Tasks sharing the registry                                              *)

\* Neither RegisterCommand nor lookupCommand takes a lock, and SSHell has
\* none: a call enters the map whatever the other tasks are doing. A call
\* is two steps, entering the map and leaving it. `raced` records that
\* another task was in the map during the call, one of the two writing.

\* The channel variables but crashed.
raceRest == <<chType, chState, loopPc, cur, nrecv, c, sessions, sftp,
              connClosed, replies, applied, nlines>>

\* The tasks other than t that are in the map and conflict with an access
\* of kind op by t: any two accesses conflict unless both are lookups.
Conflicting(t, op) ==
    {u \in Tasks \ {t} :
        access[u].op # "idle" /\ (op = "register" \/ access[u].op = "register")}

\* Task t enters the map with access a, marking itself and the tasks it
\* conflicts with as raced.
Enter(t, a) ==
    [u \in Tasks |->
        IF u = t THEN a @@ [raced |-> Conflicting(t, a.op) # {}]
        ELSE IF u \in Conflicting(t, a.op) THEN [access[u] EXCEPT !.raced = TRUE]
        ELSE access[u]]

\* Task t calls RegisterCommand(name, run, nil) and starts the map write.
BeginRegister(t, name, run) ==
    /\ ~crashed
    /\ access[t].op = "idle"
    /\ access' = Enter(t, [op |-> "register", name |-> name, run |-> run])
    /\ UNCHANGED <<Commands, res, call, chanVars>>

\* The map write of task t completes. A write that raced with another
\* access either takes effect or is caught by the runtime ("concurrent map
\* writes", "concurrent map read and map write"), which ends the process.
EndRegister(t) ==
    /\ ~crashed
    /\ access[t].op = "register"
    /\ \/ /\ Commands' = RegisterCommandIn(Commands, access[t].name, access[t].run, Nil)
          /\ UNCHANGED crashed
       \/ /\ access[t].raced
          /\ crashed' = TRUE
          /\ UNCHANGED Commands
    /\ access' = [access EXCEPT ![t] = Idle]
    /\ res' = NoResult
    /\ UNCHANGED <<call, raceRest>>

\* Task t calls lookupCommand(prefix) and starts reading the map, which is
\* in state Commands.
BeginLookup(t, prefix) ==
    /\ ~crashed
    /\ access[t].op = "idle"
    /\ access' = Enter(t, [op |-> "lookup", prefix |-> prefix, seen |-> Commands])
    /\ UNCHANGED <<Commands, res, call, chanVars>>

\* lookupCommand returns to task t. A lookup that raced with a write saw
\* the map as it was when the lookup started or as it is now, or is caught
\* by the runtime, which ends the process.
EndLookup(t) ==
    /\ ~crashed
    /\ access[t].op = "lookup"
    /\ \/ /\ \E m \in {Commands, access[t].seen} :
                \E order \in ScanOrders(DOMAIN m) :
                   res' = [called |-> TRUE, prefix |-> access[t].prefix]
                          @@ lookupCommand(m, access[t].prefix, order)
          /\ UNCHANGED crashed
       \/ /\ access[t].raced
          /\ crashed' = TRUE
          /\ UNCHANGED res
    /\ access' = [access EXCEPT ![t] = Idle]
    /\ UNCHANGED <<Commands, call, raceRest>>

\* The names and prefixes of the calls that run side by side.
RaceNames == {<<"e", "x">>, <<"t", "e">>}
RacePrefixes == {<<"e">>, <<"t", "e">>}

RaceInit ==
    /\ Commands = NewSSHell
    /\ res = NoResult
    /\ call = NoCall
    /\ access = NoAccess
    /\ ChanInit("session")

RaceNext ==
    \/ \E t \in Tasks, name \in RaceNames, run \in RegRuns : BeginRegister(t, name, run)
    \/ \E t \in Tasks : EndRegister(t)
    \/ \E t \in Tasks, prefix \in RacePrefixes : BeginLookup(t, prefix)
    \/ \E t \in Tasks : EndLookup(t)

\* Two tasks calling RegisterCommand and lookupCommand on one server.
RaceSpec == RaceInit /\ [][RaceNext]_vars

-----------------------------------------------------------------------------
(* Properties of the registry (checked under RegSpec)                      *)

\* The registered names that start with the lower-cased prefix.
Matches(cmds, prefix) == {n \in DOMAIN cmds : HasPrefix(n, ToLower(prefix))}

\* The lookup that returned was of a prefix that is no registered name.
LookedUpNonName ==
    /\ res.called
    /\ res.prefix \notin DOMAIN Commands
    /\ ToLower(res.prefix) \notin DOMAIN Commands

\* C1: a lookup of a prefix that is no registered name and that two or more
\* registered names, or none, start with returns found = false, an empty
\* name and the zero-value command, whatever the scan order and whatever
\* the entries (entries with a nil run included).
C1_AmbiguousOrUnmatchedFails ==
    (LookedUpNonName /\ Cardinality(Matches(Commands, res.prefix)) # 1)
        => (res.ok = FALSE /\ res.name = <<>> /\ res.c = ZeroCommand)

\* The registered names the prefix is a prefix of, letter case aside.
MatchesAnyCase(cmds, prefix) ==
    {n \in DOMAIN cmds : HasPrefix(ToLower(n), ToLower(prefix))}

\* The registered names differ in more than letter case.
DistinctNames(cmds) ==
    \A a, b \in DOMAIN cmds : ToLower(a) = ToLower(b) => a = b

\* C2: with commands registered under distinct names, a lookup of a
\* registered name returns that name and its command with found = true
\* (even if other names start with it), and a lookup of a non-empty strict
\* prefix of exactly one registered name returns that name and its command
\* with found = true. Names are compared letter case aside.
C2_NameAndUniquePrefixResolve ==
    (res.called /\ DistinctNames(Commands)) =>
        \A n \in DOMAIN Commands :
            LET exact == ToLower(res.prefix) = ToLower(n)
                unique == /\ res.prefix # <<>>
                          /\ MatchesAnyCase(Commands, res.prefix) = {n}
            IN (exact \/ unique) =>
                  (res.ok /\ ToLower(res.name) = ToLower(n) /\ res.c = Commands[n])

\* C3: every key of the registry is lower case.
C3_KeysLowercase == \A k \in DOMAIN Commands : k = ToLower(k)

-----------------------------------------------------------------------------
(* Properties of the channel (checked under Spec)                          *)

IsGeometry(r) == r.type \in {"pty-req", "window-change"}

\* C4: the request loop is never blocked for good enqueueing a "pty-req" or
\* "window-change" request: it is not stopped at c <- req with c full while
\* no terminal session, hence no drainer of c, exists (only the blocked
\* loop itself could start one, on the "shell" request still to come).
C4_EnqueueNeverBlocksForGood ==
    ~( /\ ~crashed
       /\ loopPc = "handle"
       /\ IsGeometry(cur)
       /\ Len(c) = ChanCap
       /\ sessions = <<>> )

\* C5: the geometry requests are applied in the order they were received
\* (request ids grow with arrival), each at most once, and all by one
\* drainer to one terminal.
C5_AppliedInArrivalOrderByOneDrainer ==
    \A i, j \in DOMAIN applied :
        i < j => (applied[i].id < applied[j].id /\ applied[i].sess = applied[j].sess)

\* C6: at most one handler, a terminal session or a subsystem handler, is
\* ever started for the channel.
C6_AtMostOneHandler == Len(sessions) + Len(sftp) <= 1

\* C7: a channel whose type is not "session" is never accepted (no request
\* loop, no queued request, no session, no subsystem handler) and when
\* turned down it is rejected as an unknown channel type; a channel of type
\* "session" is never rejected.
C7_OnlySessionAccepted ==
    /\ chType # "session" =>
          /\ chState.st \in {"new", "rejected"}
          /\ chState.st = "rejected" => chState.reason = "UnknownChannelType"
          /\ loopPc = "none" /\ nrecv = 0 /\ c = <<>>
          /\ sessions = <<>> /\ sftp = <<>> /\ replies = {}
    /\ chType = "session" => chState.st # "rejected"

\* C7's case: a channel of another type has been rejected.
C7_RejectedWitness == chType # "session" /\ chState.st = "rejected"

\* The request the loop has just finished handling.
Handled(r) == loopPc = "recv" /\ cur = r /\ r # NoReq

\* C8: a "shell" request is replied to and starts a session exactly when its
\* payload is empty, the reply is out by the time the session starts, and
\* the channel is closed when the session completes and not while it runs.
C8_ShellAckStartClose ==
    /\ \A s \in DOMAIN sessions : sessions[s].req \in replies
    /\ (Handled(cur) /\ cur.type = "shell") =>
          IF cur.payload = <<>>
          THEN cur.id \in replies /\ \E s \in DOMAIN sessions : sessions[s].req = cur.id
          ELSE cur.id \notin replies /\ \A s \in DOMAIN sessions : sessions[s].req # cur.id
    /\ \A s \in DOMAIN sessions : sessions[s].pc = "done" => connClosed
    /\ \A s \in DOMAIN sessions : connClosed => sessions[s].pc = "done"

\* The payload of a "subsystem" request names sftp.
NamesSftp(payload) == Len(payload) >= 4 /\ SliceFrom(payload, 4) = sftpName

\* The requests that are to be passed over in silence.
Ignorable(r) ==
    \/ r.type = "subsystem" /\ ~NamesSftp(r.payload)
    \/ r.type \notin {"shell", "subsystem", "pty-req", "window-change"}

\* C9: the loop's step on an ignorable request sends no reply, starts no
\* handler, leaves the queue and the channel as they are, and takes the
\* loop back to receiving the next request.
C9_IgnoredInSilence ==
    [][(loopPc = "handle" /\ Ignorable(cur) /\ loopPc' # loopPc)
          => /\ replies' = replies
             /\ sessions' = sessions /\ sftp' = sftp
             /\ c' = c /\ connClosed' = connClosed
             /\ crashed' = FALSE
             /\ loopPc' = "recv"]_vars

\* C10: once a command's run has returned the exit signal, the session is
\* over, the last thing written is the farewell, written by the loop and
\* not by the command, and the channel is closed; and from then on the
\* session dispatches nothing more.
C10_ExitEndsSession ==
    /\ [](\A s \in DOMAIN sessions :
            sessions[s].err = errExitApp =>
               /\ sessions[s].pc = "done"
               /\ sessions[s].out # <<>>
               /\ sessions[s].out[Len(sessions[s].out)] = Farewell
               /\ \A i \in DOMAIN sessions[s].out :
                     sessions[s].out[i].by = "cmd" => sessions[s].out[i].text # Farewell.text
               /\ connClosed)
    /\ [][\A s \in DOMAIN sessions :
            sessions[s].err = errExitApp =>
               /\ sessions'[s].pc = "done"
               /\ sessions'[s].err = errExitApp
               /\ sessions'[s].out = sessions[s].out]_vars

\* C10's case: a session has ended on the exit signal of a command resolved
\* from a prefix or a full name.
C10_ExitedWitness ==
    \E s \in DOMAIN sessions :
        sessions[s].err = errExitApp /\ sessions[s].pc = "done" /\ connClosed

-----------------------------------------------------------------------------
(* Properties of the terminal session (checked under TermSpec)             *)

\* The token resolves under no iteration order of the map.
UnresolvedToken(cmds, tok) ==
    \A order \in ScanOrders(DOMAIN cmds) : ~lookupCommand(cmds, tok, order).ok

\* The line has a first field, and it does not resolve.
Unresolved(cmds, line) ==
    /\ Len(Fields(line)) > 0
    /\ UnresolvedToken(cmds, Fields(line)[1])

\* C11: the session loop ends only on a line-read error or on the exit
\* signal. After a line of blanks, after a command whose run returned nil
\* or an error other than the exit signal, and after a line whose first
\* token does not resolve, the loop is about to read the next line; for
\* the unresolved line it wrote "Unknown command: ", the raw line and a
\* newline.
C11_LoopEndsOnlyOnReadErrorOrExit ==
    \A s \in DOMAIN sessions :
       LET t == sessions[s] IN
       /\ t.pc = "done" => t.err \in {"readError", errExitApp}
       /\ (t.line # <<>> /\ Fields(t.line) = <<>>) => (t.pc = "read" /\ t.out = <<>>)
       /\ t.err \notin {"none", "readError", errExitApp} => t.pc = "read"
       /\ Unresolved(Commands, t.line) =>
             /\ t.pc = "read"
             /\ t.out = <<[by |-> "loop",
                           text |-> <<"Unknown command: ">> \o t.line \o <<"\n">>]>>

\* A session that handled a line of blanks, or a command that failed, or an
\* unknown command as its third line, and is reading on.
C11_ContinuedWitness ==
    \E s \in DOMAIN sessions :
       /\ sessions[s].pc = "read"
       /\ nlines = 3
       /\ \/ sessions[s].err = "userError"
          \/ Unresolved(Commands, sessions[s].line)

-----------------------------------------------------------------------------
(* Properties of completion (checked under RegSpec)                        *)

\* The completion key was pressed at the end of a line that has a space.
TabAtEndOfSpacedLine ==
    /\ call.kind = "complete"
    /\ call.key = "\t"
    /\ call.pos = Len(call.line)
    /\ IndexByte(call.line, " ") # 0

\* What the first token of the line can resolve to, over the iteration
\* orders of the map.
FirstTokenLookups(cmds, line) ==
    {lookupCommand(cmds, SubSeq(line, 1, IndexByte(line, " ") - 1), order) :
        order \in ScanOrders(DOMAIN cmds)}

\* cand starts with soFar, letter case aside.
StartsWithFold(cand, soFar) ==
    /\ Len(soFar) <= Len(cand)
    /\ ToLower(SubSeq(cand, 1, Len(soFar))) = ToLower(soFar)

\* The candidates of a provider that start with soFar, letter case aside.
MatchingCandidates(complete, soFar) ==
    SelectSeq(Candidates(complete), LAMBDA cand : StartsWithFold(cand, soFar))

\* The first token resolves to a command with a provider, and the line ends
\* in a partial argument token soFar.
CompletingArgument ==
    /\ TabAtEndOfSpacedLine
    /\ \A l \in FirstTokenLookups(Commands, call.line) : l.ok /\ l.c.complete # Nil
    /\ ~LastWordMatch(call.line).nil

\* The number of candidates that match soFar, whichever way the first token
\* resolves.
MatchCounts ==
    {Len(MatchingCandidates(l.c.complete, LastWordMatch(call.line).soFar)) :
        l \in FirstTokenLookups(Commands, call.line)}

\* C12: with the completion key pressed at the end of a line that contains
\* whitespace, when the first token does not resolve, or resolves to a
\* command without a completion provider, the callback returns handled =
\* false (and so leaves the line as it is).
C12_NoProviderNotHandled ==
    ( /\ TabAtEndOfSpacedLine
      /\ \A l \in FirstTokenLookups(Commands, call.line) : ~l.ok \/ l.c.complete = Nil )
    => ~call.ok

\* C13: when the command resolves and has a provider, and no candidate
\* starts with soFar (letter case aside), the callback returns handled =
\* false (and so leaves the line as it is).
C13_NoCandidateNotHandled ==
    (CompletingArgument /\ MatchCounts = {0}) => ~call.ok

\* C14: when at least one candidate starts with soFar (letter case aside),
\* the callback returns handled = true; with exactly one match the new line
\* is the line with its trailing soFar replaced by the candidate and the
\* cursor is at its end; with two or more the line and the cursor are
\* returned as given; the line returned differs from the line given only
\* when exactly one candidate matched.
C14_OneMatchCompletesManyLeave ==
    (CompletingArgument /\ 0 \notin MatchCounts) =>
       LET soFar == LastWordMatch(call.line).soFar IN
       /\ call.ok
       /\ \A l \in FirstTokenLookups(Commands, call.line) :
             LET match == MatchingCandidates(l.c.complete, soFar) IN
             /\ Len(match) = 1 =>
                   /\ call.newLine =
                         SubSeq(call.line, 1, Len(call.line) - Len(soFar)) \o match[1]
                   /\ call.newPos = Len(call.newLine)
             /\ Len(match) >= 2 =>
                   (call.newLine = call.line /\ call.newPos = call.pos)
       /\ call.newLine # call.line => MatchCounts = {1}

\* A completion with exactly one matching candidate has rewritten the line.
C14_CompletedWitness ==
    /\ CompletingArgument
    /\ MatchCounts = {1}
    /\ call.ok
    /\ call.newLine # call.line
    /\ Len(call.newLine) > Len(call.line)

-----------------------------------------------------------------------------
(* Properties of the process and of command invocation                     *)

\* C15: no error is fatal to the process. Whatever channels are opened,
\* whatever requests and payloads arrive and however the file-transfer
\* handler ends, no goroutine has panicked and log.Fatal was not called.
C15_NoErrorFatalToProcess ==
    /\ crashed = FALSE
    /\ loopPc # "panicked"

\* Some entry of the registry has a nil run.
HasNilRun(cmds) == \E n \in DOMAIN cmds : cmds[n].run = Nil

\* C16: a nil run is never invoked. With a registry holding an entry whose
\* run is nil, whatever lines the session reads and whatever argument
\* strings Exec is given, neither has called the nil run (a call that
\* panics and ends the process).
C16_NilRunNeverInvoked ==
    HasNilRun(Commands) =>
       /\ ~crashed
       /\ call.kind = "exec" => ~call.panic

\* The first word of the argument string resolves, under every iteration
\* order of the map.
ExecResolves(cmds, f) ==
    /\ Len(f) > 0
    /\ \A order \in ScanOrders(DOMAIN cmds) : lookupCommand(cmds, f[1], order).ok

\* C17: Exec returns a non-nil error exactly when tokenizing fails or the
\* first token does not resolve. When the command resolves, Exec returns
\* what run wrote to the sink and a nil error, whatever run returned; when
\* it does not resolve, Exec returns "Unknown command: ", the first token
\* and a newline, and an error with that text.
C17_ExecErrorIffParseOrUnknown ==
    call.kind = "exec" =>
       LET p == Parse(call.args) IN
       /\ ~call.panic
       /\ ~call.err.isNil <=>
             (~p.err.isNil \/ (Len(p.f) > 0 /\ UnresolvedToken(Commands, p.f[1])))
       /\ (p.err.isNil /\ ExecResolves(Commands, p.f)) =>
             /\ call.err.isNil
             /\ \E order \in ScanOrders(DOMAIN Commands) :
                   call.out = SinkText(RunCommand(
                       lookupCommand(Commands, p.f[1], order).c.run, Tail(p.f)).writes)
       /\ (p.err.isNil /\ Len(p.f) > 0 /\ UnresolvedToken(Commands, p.f[1])) =>
             /\ call.out = <<"Unknown command: ">> \o p.f[1] \o <<"\n">>
             /\ call.err.text = call.out

-----------------------------------------------------------------------------
(* Properties of tasks sharing the registry (checked under RaceSpec)       *)

\* C18: register and lookup calls of different tasks are kept apart by a
\* synchronization discipline: in every interleaving of a register call
\* with a lookup call or with another register call, no two of them are
\* in the command map at the same time.
C18_RegistryAccessesExcludeEachOther ==
    \A t, u \in Tasks :
       (t # u /\ access[t].op = "register") => access[u].op = "idle"

-----------------------------------------------------------------------------
(* Properties of terminal geometry (checked under DimSpec)                 *)

\* The 4-byte big-endian word at byte offset off (0-based) of payload.
WordAt(payload, off) == BigEndianUint32(payload, off + 1)

\* Where the width is in a request's payload: after the 4-byte length L and
\* the L bytes of the name in a "pty-req", at the start in a
\* "window-change".
WidthOffset(r) ==
    IF r.type = "pty-req" THEN 4 + WordAt(r.payload, 0) ELSE 0

\* C19: the width and height applied for a "pty-req" with name length L,
\* whatever L is, are the words at byte offsets 4+L and 8+L of its payload;
\* for a "window-change" they are the words at offsets 0 and 4.
C19_DimsAtSpecifiedOffsets ==
    [][\A s \in DOMAIN sessions :
          (sessions[s].held # NoReq /\ Len(applied') = Len(applied) + 1) =>
             LET r == sessions[s].held
                 a == applied'[Len(applied')]
             IN /\ a.w = WordAt(r.payload, WidthOffset(r))
                /\ a.h = WordAt(r.payload, WidthOffset(r) + 4)]_vars

-----------------------------------------------------------------------------
(* Termination of a channel's tasks (checked under Spec)                   *)

\* The request stream has closed and the request loop has ended, every
\* session started for the channel has ended, and no queued request is
\* left for a drainer to handle.
ChannelOver ==
    /\ ~crashed
    /\ loopPc = "done"
    /\ sessions # <<>>
    /\ \A s \in DOMAIN sessions : sessions[s].pc = "done" /\ sessions[s].held = NoReq
    /\ c = <<>>

\* C20: once a session has ended and the request stream has closed, every
\* task started for the channel terminates. Stated at the point where
\* nothing is left to do for the channel: there the request loop and the
\* session loops have ended, and so has every drainer of the queue.
C20_TasksOfEndedChannelTerminate ==
    ChannelOver => \A s \in DOMAIN sessions : DrainerEnded(s)

====
